---------------------------- MODULE Spec2Model ----------------------------
(***************************************************************************)
(* rift: one-shot mirror of a source tree into a destination tree.        *)
(*                                                                         *)
(* The module models src/main.go:                                          *)
(*   - the exclusion-pattern matcher (matchPattern, shouldExclude),        *)
(*   - the forward walk of sync with copyFile,                             *)
(*   - the reclaim phase cleanOrphans.                                     *)
(*                                                                         *)
(* Strings are sequences of one-character strings, so that the string     *)
(* operations of the code (HasSuffix, TrimPrefix, Split, Join, Base,      *)
(* filepath.Match) are computed and not assumed.                           *)
(***************************************************************************)
EXTENDS Integers, Sequences, FiniteSets, TLC

VARIABLES
    \* ---- matcher harness (SpecMatch) ----
    relPath,      \* the relative path handed to matchPattern / shouldExclude
    pattern,      \* the single pattern handed to matchPattern
    isDir,        \* the isDir argument
    patterns,     \* the pattern list handed to shouldExclude and to sync
    matched,      \* result of the last matchPattern call ("none" before any)
    prevMatched,  \* result of matchPattern on the path before the last prepend
    excluded,     \* result of the last shouldExclude call ("none" before any)
    \* ---- sync (Spec) ----
    srcTree,      \* source tree: relative path -> entry
    destTree,     \* destination tree: relative path -> entry
    destExists,   \* whether the destination root directory exists
    pc,           \* position of the sync run
    walkQ,        \* source entries WalkDir has still to visit, in visit order
    validPaths,   \* the validPaths map of sync (set of keys)
    scanQ,        \* destination entries the reclaim walk has still to visit
    toRemove,     \* the deletion list of cleanOrphans
    removeIdx,    \* entries of toRemove the removal loop has gone through
    err,          \* the error sync returned ("nil" while none)
    runNo,        \* which sync run of the process this is
    copies,       \* per run, the destination files copyFile opened for writing
    visited,      \* source entries the walk callback was called on, in order
    lastCopy,     \* what the last copyFile call saw and did
    destAtStart,  \* destination tree when the current run started
    destAfterRun, \* destination tree when the previous run returned success
    deleted       \* destination paths removed in the current run

matchVars == <<relPath, pattern, isDir, matched, prevMatched, excluded>>
syncVars == <<srcTree, destTree, destExists, pc, walkQ, validPaths, scanQ,
              toRemove, removeIdx, err, runNo, copies, visited, lastCopy,
              destAtStart, destAfterRun, deleted>>
vars == <<relPath, pattern, isDir, patterns, matched, prevMatched, excluded,
          srcTree, destTree, destExists, pc, walkQ, validPaths, scanQ,
          toRemove, removeIdx, err, runNo, copies, visited, lastCopy,
          destAtStart, destAfterRun, deleted>>

(***************************************************************************)
(* Bounds.                                                                 *)
(***************************************************************************)
\* most path components of a relative path in the matcher harness
MaxComps == 3
\* most patterns in the list handed to shouldExclude in the matcher harness
MaxPatterns == 2
\* modification times are 1..MaxTime
MaxTime == 2
\* sync runs of one process
MaxRuns == 2

(***************************************************************************)
(* Strings.                                                                *)
(***************************************************************************)
\* os.PathSeparator on the build the tests run on
Separator == "/"

\* filepath.ToSlash: every Separator becomes "/"
ToSlash(s) == [i \in 1..Len(s) |-> IF s[i] = Separator THEN "/" ELSE s[i]]

HasPrefix(s, p) == Len(s) >= Len(p) /\ SubSeq(s, 1, Len(p)) = p

HasSuffix(s, p) == Len(s) >= Len(p) /\ SubSeq(s, Len(s) - Len(p) + 1, Len(s)) = p

TrimPrefix(s, p) == IF HasPrefix(s, p) THEN SubSeq(s, Len(p) + 1, Len(s)) ELSE s

TrimSuffix(s, p) == IF HasSuffix(s, p) THEN SubSeq(s, 1, Len(s) - Len(p)) ELSE s

\* strings.Contains(s, "/")
Contains(s, c) == \E i \in 1..Len(s) : s[i] = c

\* strings.Split(s, "/"): the pieces between separators, empty pieces kept
RECURSIVE Split(_)
Split(s) ==
    IF ~Contains(s, "/") THEN <<s>>
    ELSE LET i == CHOOSE k \in 1..Len(s) :
                      s[k] = "/" /\ \A j \in 1..(k - 1) : s[j] # "/"
         IN  <<SubSeq(s, 1, i - 1)>> \o Split(SubSeq(s, i + 1, Len(s)))

\* strings.Join(parts, "/")
RECURSIVE Join(_)
Join(parts) ==
    IF Len(parts) = 0 THEN <<>>
    ELSE IF Len(parts) = 1 THEN parts[1]
    ELSE parts[1] \o <<"/">> \o Join(Tail(parts))

\* filepath.Base: trailing separators dropped, then the last element;
\* "." for the empty path and "/" for a path of separators only
RECURSIVE StripTrailingSep(_)
StripTrailingSep(s) ==
    IF Len(s) > 0 /\ s[Len(s)] = Separator
    THEN StripTrailingSep(SubSeq(s, 1, Len(s) - 1))
    ELSE s

Base(path) ==
    IF path = <<>> THEN <<".">>
    ELSE LET t == StripTrailingSep(path)
         IN  IF t = <<>> THEN <<Separator>>
             ELSE LET parts == Split(t) IN parts[Len(parts)]

\* filepath.Dir of a clean relative path: everything before the last
\* separator, <<>> standing for the tree root
Dir(path) ==
    LET parts == Split(path)
    IN  Join(SubSeq(parts, 1, Len(parts) - 1))

\* filepath.Match over the pattern characters "*", "?" and literals:
\* "*" is any run of non-separator characters, "?" one non-separator
\* character (the (matched, err) pair of the code is read as matched)
RECURSIVE Match(_, _)
Match(pat, name) ==
    IF pat = <<>> THEN name = <<>>
    ELSE IF Head(pat) = "*"
         THEN \E k \in 0..Len(name) :
                  /\ \A j \in 1..k : name[j] # Separator
                  /\ Match(Tail(pat), SubSeq(name, k + 1, Len(name)))
    ELSE IF name = <<>> THEN FALSE
    ELSE IF Head(pat) = "?"
         THEN Head(name) # Separator /\ Match(Tail(pat), Tail(name))
    ELSE Head(pat) = Head(name) /\ Match(Tail(pat), Tail(name))

(***************************************************************************)
(* The pattern matcher.                                                    *)
(***************************************************************************)
\* mutant: the double-star branch tests single components only
matchDoubleStar_componentsOnly(path, suffix) ==
    LET parts == Split(path)
    IN  \E i \in 1..Len(parts) : Match(suffix, parts[i])

\* the "**/" branch: suffix against every parts[i:] and every parts[i]
matchDoubleStar(path, suffix) ==
    LET parts == Split(path)
    IN  \E i \in 1..Len(parts) :
            \/ Match(suffix, Join(SubSeq(parts, i, Len(parts))))
            \/ Match(suffix, parts[i])

\* mutant: a pattern without "/" is matched against the whole path
matchAnyComponent_wholePath(path, pat) == Match(pat, path)

\* the branch for a pattern without "/": the base name, then any component
matchAnyComponent(path, pat) ==
    \/ Match(pat, Base(path))
    \/ LET parts == Split(path)
       IN  \E i \in 1..Len(parts) : Match(pat, parts[i])

\* mutant: a pattern with "/" matches at any depth
matchFromRoot_anyDepth(path, pat) ==
    LET parts == Split(path)
        p == TrimPrefix(pat, <<"/">>)
    IN  \E i \in 1..Len(parts) : Match(p, Join(SubSeq(parts, i, Len(parts))))

\* the branch for a pattern with "/": one leading "/" dropped, whole path
matchFromRoot(path, pat) == Match(TrimPrefix(pat, <<"/">>), path)

\* mutant: a directory-only pattern is matched against files too
matchPattern_ignoreIsDir(path, rawPattern, dir) ==
    LET p0 == ToSlash(rawPattern)
        p == TrimSuffix(p0, <<"/">>)
    IN  IF HasPrefix(p, <<"*", "*", "/">>)
        THEN matchDoubleStar(path, TrimPrefix(p, <<"*", "*", "/">>))
        ELSE IF ~Contains(p, "/") THEN matchAnyComponent(path, p)
        ELSE matchFromRoot(path, p)

matchPattern(path, rawPattern, dir) ==
    LET p0 == ToSlash(rawPattern)
        dirOnly == HasSuffix(p0, <<"/">>)
        p == IF dirOnly THEN TrimSuffix(p0, <<"/">>) ELSE p0
    IN  IF dirOnly /\ ~dir THEN FALSE
        ELSE IF HasPrefix(p, <<"*", "*", "/">>)
        THEN matchDoubleStar(path, TrimPrefix(p, <<"*", "*", "/">>))
        ELSE IF ~Contains(p, "/") THEN matchAnyComponent(path, p)
        ELSE matchFromRoot(path, p)

shouldExclude(path, pats, dir) ==
    LET p == ToSlash(path)
    IN  \E i \in 1..Len(pats) : matchPattern(p, pats[i], dir)


(***************************************************************************)
(* Inputs of the matcher harness.                                          *)
(***************************************************************************)
\* file and directory names
Names == {<<"a">>, <<"b">>, <<"a", "b">>}

\* relative paths of at most n components, as filepath.Rel returns them
RECURSIVE PathsUpTo(_)
PathsUpTo(n) ==
    IF n <= 1 THEN Names
    ELSE PathsUpTo(n - 1) \cup
         {q \o <<"/">> \o p : q \in Names, p \in PathsUpTo(n - 1)}

NumComps(path) == Len(Split(path))

\* one glob segment of a pattern
Segs == {<<"a">>, <<"b">>, <<"*">>, <<"?">>, <<"a", "*">>}

\* pattern bodies: nothing, one segment, or two segments joined by "/"
Bodies == {<<>>} \cup Segs \cup {s \o <<"/">> \o t : s \in Segs, t \in Segs}

\* a body, optionally rooted ("/") or double-star prefixed ("**/"),
\* optionally directory-only (trailing "/")
AllPatterns ==
    {pre \o b \o suf : pre \in {<<>>, <<"/">>, <<"*", "*", "/">>},
                       b \in Bodies,
                       suf \in {<<>>, <<"/">>}}

\* patterns a caller may add to the list after the first
ExtraPatterns == {<<"b", "/">>, <<"*">>}

BoolStr(b) == IF b THEN "true" ELSE "false"

\* an empty tree
NoTree == [p \in {} |-> 0]

NoCopy == [kind |-> "none"]

SyncIdle ==
    /\ srcTree = NoTree
    /\ destTree = NoTree
    /\ destExists = FALSE
    /\ pc = "idle"
    /\ walkQ = <<>>
    /\ validPaths = {}
    /\ scanQ = <<>>
    /\ toRemove = <<>>
    /\ removeIdx = 0
    /\ err = "nil"
    /\ runNo = 0
    /\ copies = <<>>
    /\ visited = <<>>
    /\ lastCopy = NoCopy
    /\ destAtStart = NoTree
    /\ destAfterRun = NoTree
    /\ deleted = {}

(***************************************************************************)
(* SpecMatch: matchPattern and shouldExclude applied to bounded inputs.    *)
(***************************************************************************)
InitMatch ==
    /\ relPath \in PathsUpTo(MaxComps)
    /\ pattern \in AllPatterns
    /\ isDir \in BOOLEAN
    /\ patterns = <<pattern>>
    /\ matched = "none"
    /\ prevMatched = "none"
    /\ excluded = "none"
    /\ SyncIdle

\* the caller appends one more pattern to the list
AddPattern ==
    /\ matched = "none"
    /\ Len(patterns) < MaxPatterns
    /\ \E p \in ExtraPatterns : patterns' = Append(patterns, p)
    /\ UNCHANGED <<matchVars, syncVars>>

\* matchPattern(relPath, pattern, isDir)
CallMatchPattern ==
    /\ matched = "none"
    /\ matched' = BoolStr(matchPattern(relPath, pattern, isDir))
    /\ UNCHANGED <<relPath, pattern, isDir, patterns, prevMatched, excluded,
                   syncVars>>

\* shouldExclude(relPath, patterns, isDir)
CallShouldExclude ==
    /\ matched # "none"
    /\ excluded = "none"
    /\ excluded' = BoolStr(shouldExclude(relPath, patterns, isDir))
    /\ UNCHANGED <<relPath, pattern, isDir, patterns, matched, prevMatched,
                   syncVars>>

\* the same entry one directory deeper: matchPattern(q + "/" + relPath, ...)
CallMatchDeeper ==
    /\ excluded # "none"
    /\ NumComps(relPath) < MaxComps
    /\ \E q \in Names :
           /\ relPath' = q \o <<"/">> \o relPath
           /\ matched' = BoolStr(matchPattern(q \o <<"/">> \o relPath,
                                              pattern, isDir))
    /\ prevMatched' = matched
    /\ excluded' = "none"
    /\ UNCHANGED <<pattern, isDir, patterns, syncVars>>

NextMatch ==
    \/ AddPattern
    \/ CallMatchPattern
    \/ CallShouldExclude
    \/ CallMatchDeeper

SpecMatch == InitMatch /\ [][NextMatch]_vars


(***************************************************************************)
(* Claims about the matcher, checked under SpecMatch.                      *)
(***************************************************************************)
DirOnly(pat) == HasSuffix(pat, <<"/">>)

DoubleStarPrefix == <<"*", "*", "/">>

\* a pattern with a "/" left after the trailing one is stripped, and no
\* "**/" in front
IsRooted(pat) ==
    /\ Contains(TrimSuffix(pat, <<"/">>), "/")
    /\ ~HasPrefix(pat, DoubleStarPrefix)

\* s glob-matches a component-suffix of path, or one component of it
MatchesSuffixOrComponent(s, path) ==
    LET parts == Split(path)
    IN  \/ \E i \in 1..Len(parts) : Match(s, Join(SubSeq(parts, i, Len(parts))))
        \/ \E i \in 1..Len(parts) : Match(s, parts[i])

\* C4: a pattern ending in "/" never matches a non-directory, whatever is
\* left after the "/" is stripped; and shouldExclude of a non-directory is
\* false when every pattern of the list ends in "/".
C4_DirOnlyNeverMatchesFile ==
    /\ (matched # "none" /\ DirOnly(pattern) /\ ~isDir) => matched = "false"
    /\ ( /\ excluded # "none"
         /\ ~isDir
         /\ \A i \in 1..Len(patterns) : DirOnly(patterns[i]) )
       => excluded = "false"

\* C4 witness: a file whose base name is the stripped pattern, which the
\* same pattern matches as a directory, under a two-pattern list of
\* directory-only patterns
C4_Witness ==
    /\ ~isDir
    /\ DirOnly(pattern)
    /\ Base(relPath) = TrimSuffix(pattern, <<"/">>)
    /\ NumComps(relPath) >= 2
    /\ matchPattern(relPath, pattern, TRUE)
    /\ matched = "false"
    /\ Len(patterns) = 2
    /\ \A i \in 1..Len(patterns) : DirOnly(patterns[i])
    /\ excluded = "false"

\* C5: for a pattern without "/", a path that matches still matches after
\* directory components are put in front of it.
C5_DepthIndependent ==
    (~Contains(pattern, "/") /\ prevMatched = "true") => matched = "true"

\* C5 witness: a match that survived two prepended directories
C5_Witness ==
    /\ ~Contains(pattern, "/")
    /\ pattern # <<"*">>
    /\ prevMatched = "true"
    /\ matched = "true"
    /\ NumComps(relPath) = 3

\* C6: a rooted pattern matches only if the whole relative path
\* glob-matches the pattern with the trailing "/" and one leading "/"
\* removed; "a/b" does not match "b/a/b".
C6_RootedAnchored ==
    /\ (IsRooted(pattern) /\ matched = "true")
       => Match(TrimPrefix(TrimSuffix(pattern, <<"/">>), <<"/">>), relPath)
    /\ ( /\ pattern = <<"a", "/", "b">>
         /\ relPath = <<"b", "/", "a", "/", "b">>
         /\ matched # "none" )
       => matched = "false"

\* C6 witness: a rooted pattern that matched a path no longer matches it
\* one directory deeper
C6_Witness ==
    /\ IsRooted(pattern)
    /\ prevMatched = "true"
    /\ matched = "false"
    /\ NumComps(relPath) = 3

\* C7 as stated: for every pattern "**/S", matchPattern is true iff S
\* glob-matches a component-suffix or a single component of the path.
C7_DoubleStarIff_AnyS ==
    (matched # "none" /\ HasPrefix(pattern, DoubleStarPrefix))
    => ( matched = "true"
         <=> MatchesSuffixOrComponent(TrimPrefix(pattern, DoubleStarPrefix),
                                      relPath) )

\* C7 amended: the same for every pattern "**/S" that does not end in "/".
C7_DoubleStarIff ==
    ( /\ matched # "none"
      /\ HasPrefix(pattern, DoubleStarPrefix)
      /\ ~DirOnly(pattern) )
    => ( matched = "true"
         <=> MatchesSuffixOrComponent(TrimPrefix(pattern, DoubleStarPrefix),
                                      relPath) )

\* C7 witness: "**/S" with a two-segment S matched at depth 0 and matches
\* one directory deeper
C7_Witness ==
    /\ HasPrefix(pattern, DoubleStarPrefix)
    /\ ~DirOnly(pattern)
    /\ Contains(TrimPrefix(pattern, DoubleStarPrefix), "/")
    /\ prevMatched = "true"
    /\ matched = "true"
    /\ NumComps(relPath) = 3


(***************************************************************************)
(* The file system.                                                        *)
(*                                                                         *)
(* A tree maps relative paths to entries.  The key p of destTree stands   *)
(* for filepath.Join(dest, p), the key p of srcTree for                   *)
(* filepath.Join(src, p); <<>> stands for the root of either tree.        *)
(***************************************************************************)
Times == 1..MaxTime

DirEntry == [kind |-> "dir", content |-> <<>>, mtime |-> 0]

FileEntry(c, t) == [kind |-> "file", content |-> c, mtime |-> t]

\* info.Size()
Size(e) == Len(e.content)

\* file contents: two of the same size and one longer
Contents == {<<1>>, <<2>>, <<1, 1>>}

IsAncestor(d, p) == p # d /\ HasPrefix(p, d \o <<"/">>)

\* the tree without the keys in gone
Without(tree, gone) == [q \in (DOMAIN tree) \ gone |-> tree[q]]

\* the tree with key p set to entry e
With(tree, p, e) ==
    [q \in (DOMAIN tree) \cup {p} |-> IF q = p THEN e ELSE tree[q]]

\* os.RemoveAll(path): the path and everything under it
Subtree(tree, p) == {q \in DOMAIN tree : q = p \/ IsAncestor(p, q)}

\* order of the names fs.ReadDir returns (sorted by file name)
Rank(c) == CASE c = "a" -> 1 [] c = "b" -> 2 [] OTHER -> 0

RECURSIVE LexLess(_, _)
LexLess(s, t) ==
    IF s = <<>> THEN t # <<>>
    ELSE IF t = <<>> THEN FALSE
    ELSE IF Head(s) = Head(t) THEN LexLess(Tail(s), Tail(t))
    ELSE Rank(Head(s)) < Rank(Head(t))

RECURSIVE SortPaths(_)
SortPaths(S) ==
    IF S = {} THEN <<>>
    ELSE LET m == CHOOSE x \in S :
                      \A y \in S \ {x} : LexLess(Base(x), Base(y))
         IN  <<m>> \o SortPaths(S \ {m})

\* the entries of directory d, in the order WalkDir visits them
SortedChildren(tree, d) == SortPaths({q \in DOMAIN tree : Dir(q) = d})

\* os.MkdirAll(p): nil when p is a directory, an error when it is a file,
\* else the missing ancestors and then p are created; a failing Mkdir
\* leaves what was created before it
RECURSIVE MkdirAll(_, _, _)
MkdirAll(p, tree, root) ==
    IF p = <<>>
    THEN IF root THEN {[ok |-> TRUE, tree |-> tree, root |-> TRUE]}
         ELSE {[ok |-> TRUE, tree |-> tree, root |-> TRUE],
               [ok |-> FALSE, tree |-> tree, root |-> FALSE]}
    ELSE IF p \in DOMAIN tree
    THEN {[ok |-> tree[p].kind = "dir", tree |-> tree, root |-> root]}
    ELSE UNION {
           IF ~m.ok THEN {m}
           ELSE {[ok |-> TRUE, tree |-> With(m.tree, p, DirEntry), root |-> m.root],
                 [ok |-> FALSE, tree |-> m.tree, root |-> m.root]}
           : m \in MkdirAll(Dir(p), tree, root)}

(***************************************************************************)
(* copyFile.                                                               *)
(***************************************************************************)
NoStat == [found |-> FALSE, size |-> 0, mtime |-> 0]

StatOf(e) == [found |-> TRUE, size |-> Size(e), mtime |-> e.mtime]

\* what os.Stat may report for a directory: the size and time the file
\* system keeps for it, which the program does not set
DirStats == {[found |-> TRUE, size |-> n, mtime |-> t] : n \in 1..2, t \in Times}

\* mutant: the skip test compares the modification time only
sameSizeAndModTime_timeOnly(destInfo, info) == destInfo.mtime = info.mtime

\* mutant: the skip test never succeeds
sameSizeAndModTime_never(destInfo, info) == FALSE

\* destInfo.Size() == info.Size() && destInfo.ModTime().Equal(info.ModTime())
sameSizeAndModTime(destInfo, info) ==
    destInfo.size = info.size /\ destInfo.mtime = info.mtime

\* the first n bytes of a content
Prefix(c, n) == SubSeq(c, 1, n)

\* copyFile(src, dest) with srcE the source file: every outcome the calls
\* of the function can produce, as
\*   res      "skip" | "copied" | "error"
\*   tree     the destination tree afterwards
\*   root     whether the destination root exists afterwards
\*   wrote    whether the destination file was opened for writing
\*   srcStat  whether os.Stat(src) succeeded
\*   destStat what os.Stat(dest) reported
\* os.Stat(dest) succeeds exactly when something exists at dest, and
\* os.MkdirAll of an existing directory returns nil; every other call may
\* fail.
copyFile(path, srcE, tree, root) ==
    LET Out(r, t, rt, w, ss, ds) ==
            [res |-> r, tree |-> t, root |-> rt, wrote |-> w,
             srcStat |-> ss, destStat |-> ds]
        info == StatOf(srcE)
        \* os.OpenFile(dest, O_RDWR|O_CREATE|O_TRUNC), io.Copy, os.Chtimes
        Write(t, rt, ds) ==
            IF path \in DOMAIN t /\ t[path].kind = "dir"
            THEN {Out("error", t, rt, FALSE, TRUE, ds)}
            ELSE {Out("error", t, rt, FALSE, TRUE, ds)}
                 \cup {Out("error",
                           With(t, path, FileEntry(Prefix(srcE.content, n), now)),
                           rt, TRUE, TRUE, ds)
                       : n \in 0..Size(srcE), now \in Times}
                 \cup {Out("copied",
                           With(t, path, FileEntry(srcE.content, srcE.mtime)),
                           rt, TRUE, TRUE, ds)}
        \* os.Stat(dest) and the skip test
        Compare(t, rt) ==
            LET stats == IF path \notin DOMAIN t THEN {NoStat}
                         ELSE IF t[path].kind = "file" THEN {StatOf(t[path])}
                         ELSE DirStats
            IN  UNION {IF ds.found /\ sameSizeAndModTime(ds, info)
                       THEN {Out("skip", t, rt, FALSE, TRUE, ds)}
                       ELSE Write(t, rt, ds)
                       : ds \in stats}
    IN  \* os.Stat(src) fails
        {Out("error", tree, root, FALSE, FALSE, NoStat)}
        \cup
        \* os.MkdirAll(filepath.Dir(dest), 0755), then the rest
        UNION {IF ~m.ok
               THEN {Out("error", m.tree, m.root, FALSE, TRUE, NoStat)}
               ELSE Compare(m.tree, m.root)
               : m \in MkdirAll(Dir(path), tree, root)}


(***************************************************************************)
(* sync: the forward walk.                                                 *)
(***************************************************************************)
NoEntry == [kind |-> "none", content |-> <<>>, mtime |-> 0]

EntryAt(tree, p) == IF p \in DOMAIN tree THEN tree[p] ELSE NoEntry

\* mutant: an excluded directory is skipped like a file, without SkipDir
checkExclusions_noPrune(path, pats, dir) ==
    IF shouldExclude(path, pats, dir) THEN "nil" ELSE "record"

\* what the walk callback does with an entry: "SkipDir" (excluded
\* directory), "nil" (excluded file), "record" (kept)
checkExclusions(path, pats, dir) ==
    IF shouldExclude(path, pats, dir)
    THEN IF dir THEN "SkipDir" ELSE "nil"
    ELSE "record"

\* mutant: the walk goes on after a failed step
onWalkError_continue == "walk"

\* where sync goes when the callback returns an error: WalkDir stops and
\* sync returns "walking source: ..."
onWalkError == "failed"

\* sync(src, dest, patterns) is called: validPaths is made, WalkDir visits
\* the root (relPath ".", skipped) and reads its entries
syncStart ==
    /\ pc \in {"ready", "done"}
    /\ runNo < MaxRuns
    /\ runNo' = runNo + 1
    /\ validPaths' = {}
    /\ visited' = <<>>
    /\ copies' = Append(copies, 0)
    /\ destAtStart' = destTree
    /\ destAfterRun' = IF pc = "done" THEN destTree ELSE destAfterRun
    /\ deleted' = {}
    /\ toRemove' = <<>>
    /\ removeIdx' = 0
    /\ scanQ' = <<>>
    /\ lastCopy' = NoCopy
    /\ \/ /\ walkQ' = SortedChildren(srcTree, <<>>)
          /\ pc' = "walk"
          /\ err' = "nil"
       \/ \* the root cannot be read: the callback is handed the error
          /\ walkQ' = <<>>
          /\ pc' = onWalkError
          /\ err' = "walking source"
    /\ UNCHANGED <<matchVars, patterns, srcTree, destTree, destExists>>

\* the WalkDir callback of sync on the next source entry
walkFn ==
    /\ pc = "walk"
    /\ walkQ # <<>>
    /\ LET p == Head(walkQ)
           e == srcTree[p]
           dir == e.kind = "dir"
           r == checkExclusions(p, patterns, dir)
           rest == Tail(walkQ)
       IN  /\ visited' = Append(visited, p)
           /\ \/ \* excluded: SkipDir for a directory, nil for a file
                 /\ r # "record"
                 /\ walkQ' = (IF dir /\ r # "SkipDir"
                              THEN SortedChildren(srcTree, p) ELSE <<>>) \o rest
                 /\ UNCHANGED <<validPaths, destTree, destExists, pc, err,
                                copies, lastCopy>>
              \/ \* directory: d.Info() fails
                 /\ r = "record" /\ dir
                 /\ validPaths' = validPaths \cup {p}
                 /\ walkQ' = rest
                 /\ pc' = onWalkError
                 /\ err' = "walking source"
                 /\ UNCHANGED <<destTree, destExists, copies, lastCopy>>
              \/ \* directory: os.MkdirAll(destPath, info.Mode())
                 /\ r = "record" /\ dir
                 /\ validPaths' = validPaths \cup {p}
                 /\ \E m \in MkdirAll(p, destTree, destExists) :
                        /\ destTree' = m.tree
                        /\ destExists' = m.root
                        /\ \/ /\ m.ok
                              /\ walkQ' = SortedChildren(srcTree, p) \o rest
                              /\ UNCHANGED <<pc, err>>
                           \/ \* MkdirAll failed, or the directory made
                              \* cannot be read afterwards
                              /\ walkQ' = rest
                              /\ pc' = onWalkError
                              /\ err' = "walking source"
                 /\ UNCHANGED <<copies, lastCopy>>
              \/ \* file: copyFile(path, destPath)
                 /\ r = "record" /\ ~dir
                 /\ validPaths' = validPaths \cup {p}
                 /\ walkQ' = rest
                 /\ \E o \in copyFile(p, e, destTree, destExists) :
                        /\ destTree' = o.tree
                        /\ destExists' = o.root
                        /\ copies' = [copies EXCEPT
                                        ![runNo] = @ + (IF o.wrote THEN 1 ELSE 0)]
                        /\ lastCopy' = [kind |-> "call", path |-> p, src |-> e,
                                        pre |-> EntryAt(destTree, p),
                                        res |-> o.res, srcStat |-> o.srcStat,
                                        destStat |-> o.destStat]
                        /\ pc' = IF o.res = "error" THEN onWalkError ELSE pc
                        /\ err' = IF o.res = "error" THEN "walking source" ELSE err
    /\ UNCHANGED <<matchVars, patterns, srcTree, scanQ, toRemove, removeIdx,
                   runNo, destAtStart, destAfterRun, deleted>>

(***************************************************************************)
(* cleanOrphans: the reclaim phase.                                        *)
(***************************************************************************)
\* mutant: the scan lists an orphan directory and still descends into it
markOrphan_noPrune(path, valid, dir) ==
    IF path \notin valid THEN "listed" ELSE "keep"

\* mutant: only orphan files are listed
markOrphan_filesOnly(path, valid, dir) ==
    IF path \notin valid /\ ~dir THEN "listed" ELSE "keep"

\* what the scan callback does with a destination path: "SkipDir" (listed
\* directory, not descended into), "listed" (listed file), "keep"
markOrphan(path, valid, dir) ==
    IF path \notin valid
    THEN IF dir THEN "SkipDir" ELSE "listed"
    ELSE "keep"

\* the walk of the source returned nil: cleanOrphans(dest, validPaths) is
\* called, stats the root and starts the walk of the destination
cleanOrphans ==
    /\ pc = "walk"
    /\ walkQ = <<>>
    /\ \/ \* os.IsNotExist: nothing to clean
          /\ ~destExists
          /\ pc' = "done"
          /\ UNCHANGED <<scanQ, err>>
       \/ /\ destExists
          /\ scanQ' = SortedChildren(destTree, <<>>)
          /\ pc' = "scan"
          /\ UNCHANGED err
       \/ \* the root cannot be read
          /\ destExists
          /\ pc' = "failed"
          /\ err' = "scanning destination"
          /\ UNCHANGED scanQ
    /\ UNCHANGED <<matchVars, patterns, srcTree, destTree, destExists, walkQ,
                   validPaths, toRemove, removeIdx, runNo, copies, visited,
                   lastCopy, destAtStart, destAfterRun, deleted>>

\* the WalkDir callback of cleanOrphans on the next destination path
scanFn ==
    /\ pc = "scan"
    /\ scanQ # <<>>
    /\ LET p == Head(scanQ)
           dir == destTree[p].kind = "dir"
           r == markOrphan(p, validPaths, dir)
       IN  /\ toRemove' = IF r # "keep" THEN Append(toRemove, p) ELSE toRemove
           /\ \/ /\ scanQ' = (IF dir /\ r # "SkipDir"
                              THEN SortedChildren(destTree, p) ELSE <<>>)
                             \o Tail(scanQ)
                 /\ UNCHANGED <<pc, err>>
              \/ \* a directory walked into cannot be read
                 /\ dir /\ r # "SkipDir"
                 /\ scanQ' = Tail(scanQ)
                 /\ pc' = "failed"
                 /\ err' = "scanning destination"
    /\ UNCHANGED <<matchVars, patterns, srcTree, destTree, destExists, walkQ,
                   validPaths, removeIdx, runNo, copies, visited, lastCopy,
                   destAtStart, destAfterRun, deleted>>

\* the walk of the destination returned nil: the removal loop starts
scanDone ==
    /\ pc = "scan"
    /\ scanQ = <<>>
    /\ pc' = "remove"
    /\ UNCHANGED <<matchVars, patterns, srcTree, destTree, destExists, walkQ,
                   validPaths, scanQ, toRemove, removeIdx, err, runNo, copies,
                   visited, lastCopy, destAtStart, destAfterRun, deleted>>

\* one turn of the removal loop: os.RemoveAll(path)
removeOrphan ==
    /\ pc = "remove"
    /\ removeIdx < Len(toRemove)
    /\ removeIdx' = removeIdx + 1
    /\ LET p == toRemove[removeIdx + 1]
           sub == Subtree(destTree, p)
       IN  \/ /\ destTree' = Without(destTree, sub)
              /\ deleted' = deleted \cup sub
              /\ UNCHANGED <<pc, err>>
           \/ \* RemoveAll fails, before or after emptying the directory
              /\ \E gone \in {{}, sub \ {p}} :
                     /\ destTree' = Without(destTree, gone)
                     /\ deleted' = deleted \cup gone
              /\ pc' = "failed"
              /\ err' = "removing"
    /\ UNCHANGED <<matchVars, patterns, srcTree, destExists, walkQ, validPaths,
                   scanQ, toRemove, runNo, copies, visited, lastCopy,
                   destAtStart, destAfterRun>>

\* the removal loop is through: cleanOrphans and sync return nil
removeDone ==
    /\ pc = "remove"
    /\ removeIdx = Len(toRemove)
    /\ pc' = "done"
    /\ UNCHANGED <<matchVars, patterns, srcTree, destTree, destExists, walkQ,
                   validPaths, scanQ, toRemove, removeIdx, err, runNo, copies,
                   visited, lastCopy, destAtStart, destAfterRun, deleted>>

(***************************************************************************)
(* Spec: sync run on bounded trees, up to MaxRuns times in a row.          *)
(***************************************************************************)
\* the relative paths a tree may hold
SyncPaths == {<<"a">>, <<"b">>, <<"a", "/", "b">>}

WellFormed(t) ==
    \A p \in DOMAIN t :
        Dir(p) = <<>> \/ (Dir(p) \in DOMAIN t /\ t[Dir(p)].kind = "dir")

TreesOver(entries) ==
    {t \in UNION {[D -> entries] : D \in SUBSET SyncPaths} : WellFormed(t)}

\* contents of the source files of the sync runs: two sizes
SrcContents == {<<1>>, <<1, 1>>}

SrcTrees ==
    TreesOver({DirEntry} \cup {FileEntry(c, t) : c \in SrcContents, t \in Times})

DestTrees ==
    TreesOver({DirEntry} \cup {FileEntry(c, t) : c \in Contents, t \in Times})

\* the pattern lists handed to sync
SyncPatternLists ==
    { <<>>,
      << <<"a">> >>,
      << <<"b">> >>,
      << <<"a", "/">> >>,
      << <<"a", "/", "b">> >>,
      << <<"b", "/">>, <<"/", "a", "/", "*">> >> }

MatchIdle ==
    /\ relPath = <<>>
    /\ pattern = <<>>
    /\ isDir = FALSE
    /\ matched = "none"
    /\ prevMatched = "none"
    /\ excluded = "none"

Init ==
    /\ MatchIdle
    /\ patterns \in SyncPatternLists
    /\ srcTree \in SrcTrees
    /\ destTree \in DestTrees
    /\ destExists \in BOOLEAN
    /\ (~destExists => destTree = NoTree)
    /\ pc = "ready"
    /\ walkQ = <<>>
    /\ validPaths = {}
    /\ scanQ = <<>>
    /\ toRemove = <<>>
    /\ removeIdx = 0
    /\ err = "nil"
    /\ runNo = 0
    /\ copies = <<>>
    /\ visited = <<>>
    /\ lastCopy = NoCopy
    /\ destAtStart = NoTree
    /\ destAfterRun = NoTree
    /\ deleted = {}

Next ==
    \/ syncStart
    \/ walkFn
    \/ cleanOrphans
    \/ scanFn
    \/ scanDone
    \/ removeOrphan
    \/ removeDone

Spec == Init /\ [][Next]_vars


(***************************************************************************)
(* SpecCopy: copyFile applied once to a bounded source file and            *)
(* destination tree.                                                       *)
(***************************************************************************)
\* one source file, at the top or inside directory "a"
CopySrcTrees ==
    {t \in TreesOver({DirEntry} \cup
                     {FileEntry(c, tm) : c \in Contents, tm \in Times}) :
        Cardinality({p \in DOMAIN t : t[p].kind = "file"}) = 1
        /\ \A p \in DOMAIN t : t[p].kind = "dir" =>
               \E q \in DOMAIN t : IsAncestor(p, q)}

InitCopy ==
    /\ MatchIdle
    /\ patterns = <<>>
    /\ srcTree \in CopySrcTrees
    /\ destTree \in DestTrees
    /\ destExists \in BOOLEAN
    /\ (~destExists => destTree = NoTree)
    /\ pc = "copy"
    /\ walkQ = <<>>
    /\ validPaths = {}
    /\ scanQ = <<>>
    /\ toRemove = <<>>
    /\ removeIdx = 0
    /\ err = "nil"
    /\ runNo = 1
    /\ copies = <<0>>
    /\ visited = <<>>
    /\ lastCopy = NoCopy
    /\ destAtStart = destTree
    /\ destAfterRun = NoTree
    /\ deleted = {}

\* copyFile(src/p, dest/p) for the source file p
callCopyFile ==
    /\ pc = "copy"
    /\ \E p \in {q \in DOMAIN srcTree : srcTree[q].kind = "file"} :
       \E o \in copyFile(p, srcTree[p], destTree, destExists) :
           /\ destTree' = o.tree
           /\ destExists' = o.root
           /\ copies' = [copies EXCEPT ![runNo] = @ + (IF o.wrote THEN 1 ELSE 0)]
           /\ lastCopy' = [kind |-> "call", path |-> p, src |-> srcTree[p],
                           pre |-> EntryAt(destTree, p),
                           res |-> o.res, srcStat |-> o.srcStat,
                           destStat |-> o.destStat]
           /\ pc' = "returned"
           /\ err' = IF o.res = "error" THEN "copyFile" ELSE "nil"
    /\ UNCHANGED <<matchVars, patterns, srcTree, walkQ, validPaths, scanQ,
                   toRemove, removeIdx, runNo, visited, destAtStart,
                   destAfterRun, deleted>>

NextCopy == callCopyFile

SpecCopy == InitCopy /\ [][NextCopy]_vars

(***************************************************************************)
(* Claims about sync, checked under Spec (C8 under SpecCopy).              *)
(***************************************************************************)
Under(d, p) == p = d \/ IsAncestor(d, p)

\* the source entries that neither are excluded nor lie under an excluded
\* directory
Surviving ==
    {p \in DOMAIN srcTree :
        \A q \in DOMAIN srcTree :
            Under(q, p) => ~shouldExclude(q, patterns, srcTree[q].kind = "dir")}

\* the source directories shouldExclude excludes
ExcludedDirs ==
    {d \in DOMAIN srcTree :
        srcTree[d].kind = "dir" /\ shouldExclude(d, patterns, TRUE)}

\* C1: when sync returns success, the paths under dest are exactly the
\* surviving source entries: each of them is there, and every orphan file
\* and orphan directory (with its subtree) is gone.
C1_DestIsSurvivingSource ==
    pc = "done" => DOMAIN destTree = Surviving

\* C1 witness: a first run that returned success, created a surviving entry
\* the destination lacked and removed an orphan directory with a nested file
C1_Witness ==
    /\ pc = "done"
    /\ runNo = 1
    /\ \E p \in Surviving : p \notin DOMAIN destAtStart
    /\ \E d \in DOMAIN destAtStart :
           /\ destAtStart[d].kind = "dir"
           /\ d \notin Surviving
           /\ \E q \in DOMAIN destAtStart :
                  IsAncestor(d, q) /\ destAtStart[q].kind = "file"
           /\ Subtree(destAtStart, d) \subseteq deleted

\* C2: in a run that follows a successful run with the same arguments,
\* copyFile writes no file (every call that succeeds took the skip
\* branch) and the destination tree stays what the previous run left:
\* same paths, contents and modification times.
C2_SecondRunCopiesNothing ==
    runNo >= 2 =>
        /\ copies[runNo] = 0
        /\ destTree = destAfterRun
        /\ (lastCopy.kind = "call" /\ lastCopy.res # "error")
           => lastCopy.res = "skip"

\* C2 witness: a second run returned success having skipped a file the
\* first run had copied
C2_Witness ==
    /\ runNo = 2
    /\ pc = "done"
    /\ copies[1] >= 1
    /\ lastCopy.kind = "call"
    /\ lastCopy.res = "skip"
    /\ lastCopy.pre = FileEntry(lastCopy.src.content, lastCopy.src.mtime)

\* C3: nothing under an excluded source directory D is visited, recorded
\* in validPaths or copied by the forward walk, and after a successful
\* sync neither dest/D nor any path under it exists.
C3_ExcludedDirPruned ==
    \A d \in ExcludedDirs :
        /\ \A i \in 1..Len(visited) : ~IsAncestor(d, visited[i])
        /\ \A p \in validPaths : ~Under(d, p)
        /\ lastCopy.kind = "call" => ~Under(d, lastCopy.path)
        /\ pc = "done" => \A p \in DOMAIN destTree : ~Under(d, p)

\* C3 witness: a successful run over an excluded directory whose nested
\* file matches no pattern by itself, both present in the destination
\* before the run
C3_Witness ==
    /\ pc = "done"
    /\ runNo = 1
    /\ \E d \in ExcludedDirs :
       \E q \in DOMAIN srcTree :
           /\ IsAncestor(d, q)
           /\ srcTree[q].kind = "file"
           /\ ~shouldExclude(q, patterns, FALSE)
           /\ d \in DOMAIN destAtStart
           /\ q \in DOMAIN destAtStart
           /\ d \notin DOMAIN destTree
           /\ q \notin DOMAIN destTree

\* what os.Stat(dest) reported to the last copyFile call, read off the
\* destination as it was before the call
ObservedDestStat ==
    IF lastCopy.pre.kind = "file" THEN StatOf(lastCopy.pre)
    ELSE IF lastCopy.pre.kind = "dir" THEN lastCopy.destStat
    ELSE NoStat

C9_StateAfterWalkFailure ==
    err = "walking source" =>
        /\ pc = "failed"
        /\ scanQ = <<>>
        /\ toRemove = <<>>
        /\ deleted = {}
        /\ DOMAIN destAtStart \subseteq DOMAIN destTree
        /\ \A i \in 1..(Len(visited) - 1) :
               visited[i] \in validPaths => visited[i] \in DOMAIN destTree

C9_ForwardFailureHalts ==
    /\ []C9_StateAfterWalkFailure
    /\ [][err = "walking source" => UNCHANGED vars]_vars

\* C9 witness: copyFile failed after the run had created a directory; an
\* orphan of the destination is still there
C9_Witness ==
    /\ err = "walking source"
    /\ lastCopy.kind = "call"
    /\ lastCopy.res = "error"
    /\ \E p \in validPaths :
           p \notin DOMAIN destAtStart /\ p \in DOMAIN destTree
    /\ \E o \in DOMAIN destAtStart : o \notin Surviving /\ o \in DOMAIN destTree

\* C10: every path on the deletion list is outside validPaths, above no
\* path of validPaths (which holds the parent of each of its paths) and
\* under no other listed path; no recorded path is ever removed, and
\* nothing is removed before the walk of the destination has finished.
C10_ReclaimSparesValidPaths ==
    /\ \A i \in 1..Len(toRemove) :
           /\ toRemove[i] \notin validPaths
           /\ \A v \in validPaths : ~IsAncestor(toRemove[i], v)
           /\ \A j \in 1..Len(toRemove) :
                  j # i => ~Under(toRemove[j], toRemove[i])
    /\ \A v \in validPaths : Dir(v) = <<>> \/ Dir(v) \in validPaths
    /\ deleted \cap validPaths = {}
    /\ deleted # {} => (scanQ = <<>> /\ pc \in {"remove", "done", "failed"})

\* C10 witness: a finished run that kept a recorded path and removed an
\* orphan directory with its nested file through one listed path
C10_Witness ==
    /\ pc = "done"
    /\ validPaths # {}
    /\ validPaths \subseteq DOMAIN destTree
    /\ Len(toRemove) = 1
    /\ Cardinality(deleted) = 2

=============================================================================
